---- MODULE Spec2Model ----
(***************************************************************************)
(* Model of handy-functions' retry orchestrator (src/src/retry.ts): the    *)
(* attempt loop of retry(), the cancellable delay wait(), the abort signal *)
(* they share, and the target whose invocations may succeed or fail.       *)
(*                                                                         *)
(* One behaviour is one call retry(target, retryOptions): Init draws the   *)
(* options, the actions are the steps of the call between its suspension   *)
(* points (the await of the target, the await of the delay) together with  *)
(* the two external events the call reacts to: the timer firing and the    *)
(* caller aborting the signal.                                             *)
(*                                                                         *)
(* Two further specifications cover the other entry points: SpecTryCatch   *)
(* is one call tryCatch(input, requestOptions) (src/src/retry.ts, second   *)
(* half), SpecFetcher one call fetcher(url, options) (src/src/fetcher.ts): *)
(* the request it builds, the response of fetch, its classification.       *)
(***************************************************************************)
EXTENDS Integers, Sequences, FiniteSets, TLC

\* ------------------------------------------------------------------------
\* Bounds and value domains
\* ------------------------------------------------------------------------

\* largest value of retryOptions.attempts that is explored
MaxAttempts == 3

\* smallest value of retryOptions.attempts that is explored (invalid ones)
MinAttempts == 0 - 1

\* JavaScript's undefined and null
Undefined == "undefined"
NULL == "null"

\* errors a target invocation can reject with
Errors == {"E1", "E2"}

\* values a target invocation can resolve with
Values == {"V1", "V2"}

\* the value of a literal (non-function, non-URL) target
LiteralValue == "V1"

\* reasons the caller can abort the signal with: controller.abort(null),
\* controller.abort() (a DOMException named AbortError), controller.abort(x)
Reasons == {NULL, "AbortError", "cancelled"}

\* new Error("retry: attempts must be at least 1")
ConfigError == "retry: attempts must be at least 1"

\* fixed values of retryOptions.delay that are explored (ms)
FixedDelays == {0 - 1, 0, 50}

\* values of Math.random() that are explored, in thousandths
RandomSamples == {0, 500, 999}

Max(a, b) == IF a >= b THEN a ELSE b

Last(s) == s[Len(s)]

\* ------------------------------------------------------------------------
\* State
\* ------------------------------------------------------------------------

VARIABLES
  attempts,     \* retryOptions.attempts
  delay,        \* retryOptions.delay: [kind: "fixed", ms] | [kind: "default"] | [kind: "fn"]
  hasSignal,    \* retryOptions.signal is given
  retryable,    \* "default" (() => true) or "custom" (caller predicate)
  target,       \* "thunk" | "url" | "literal"
  aborted,      \* signal.aborted
  reason,       \* signal.reason
  pc,           \* position of the retry call
  attempt,      \* let attempt
  lastError,    \* let lastError
  result,       \* value the promise returned by retry settled with
  invocations,  \* number of calls of resolveTarget made so far
  inflight,     \* number of target invocations that have not settled
  outcomes,     \* per settled invocation: [ok, val] and whether the signal
                \* was aborted when it settled
  w,            \* the latest wait(): its promise (outcome, reason), its timer
                \* and listener, and what happened to it: the number of calls
                \* of resolve and reject, of setTimeout (timers), which of the
                \* timer and the abort came first, the signal's state at the call
  retryLog,     \* calls of retryable: [error, attempt, answer]
  waitLog,      \* calls of wait: [attempt, ms]
  tc,           \* a call tryCatch(input, requestOptions): its input, its
                \* position, the calls of fetcher it made, the tuple it
                \* resolved with or the fact that it rejected
  fx            \* a call fetcher(url, options): its options, its position,
                \* the request it handed to fetch, the response fetch gave
                \* back, the value it resolved or rejected with

retryVars == <<attempts, delay, hasSignal, retryable, target, aborted, reason,
               pc, attempt, lastError, result, invocations, inflight, outcomes,
               w, retryLog, waitLog>>

\* the state of the other entry points of the library, which a retry call
\* leaves alone
others == <<tc, fx>>

vars == <<retryVars, others>>

config == <<attempts, delay, hasSignal, retryable, target>>

DelayOptions ==
  [kind : {"fixed"}, ms : FixedDelays] \cup [kind : {"default", "fn"}, ms : {0}]

\* no wait() has been called yet
NoWait ==
  [timer |-> FALSE, listener |-> FALSE, outcome |-> "none",
   reason |-> Undefined, resolveCalls |-> 0, rejectCalls |-> 0,
   first |-> "none", ms |-> 0, timers |-> 0, calledAborted |-> FALSE]

\* tryCatch has not been called
TcIdle ==
  [input |-> [kind |-> "none"], options |-> FALSE, pc |-> "idle",
   awaited |-> [ok |-> TRUE, val |-> Undefined], fetched |-> <<>>,
   tuple |-> <<>>, rejected |-> FALSE]

\* fetcher has not been called
FxIdle ==
  [options |-> [method |-> Undefined], pc |-> "idle", request |-> <<>>,
   response |-> <<>>, result |-> [kind |-> "none"]]

\* the options of a retry call
RetryOptionsInit ==
  /\ attempts \in MinAttempts..MaxAttempts
  /\ delay \in DelayOptions
  /\ hasSignal \in BOOLEAN
  /\ retryable \in {"default", "custom"}
  /\ target \in {"thunk", "url", "literal"}

\* the state of a retry call before its first step
RetryStart ==
  /\ aborted = FALSE
  /\ reason = Undefined
  /\ pc = "start"
  /\ attempt = 0
  /\ lastError = Undefined
  /\ result = Undefined
  /\ invocations = 0
  /\ inflight = 0
  /\ outcomes = <<>>
  /\ w = NoWait
  /\ retryLog = <<>>
  /\ waitLog = <<>>

Init ==
  /\ RetryOptionsInit
  /\ RetryStart
  /\ tc = TcIdle
  /\ fx = FxIdle

\* ------------------------------------------------------------------------
\* Pure helpers of retry.ts
\* ------------------------------------------------------------------------

\* Math.round(x) for x = num / den >= 0: floor(x + 1/2)
Round(num, den) == (2 * num + den) \div (2 * den)

\* a backoff that does not double per attempt
defaultDelay_noDoubling(att, r) == Round(200 * (3 * r + 8500), 10000)

\* defaultDelay(attempt) with Math.random() = r / 1000:
\* jitter = r/1000 * 0.3 + 0.85, result = round(200 * 2^attempt * jitter)
defaultDelay(att, r) == Round(200 * (2 ^ att) * (3 * r + 8500), 10000)

\* a caller-supplied delay function
callerDelay(att) == 10 * att

\* a delay that is not clamped
delayMs_unclamped(att, r) ==
  CASE delay.kind = "fixed" -> delay.ms
    [] delay.kind = "default" -> defaultDelay(att, r)
    [] delay.kind = "fn" -> callerDelay(att)

\* const delayMs = typeof delay === "function" ? delay(attempt) : Math.max(delay, 0)
delayMs(att, r) ==
  CASE delay.kind = "fixed" -> Max(delay.ms, 0)
    [] delay.kind = "default" -> defaultDelay(att, r)
    [] delay.kind = "fn" -> callerDelay(att)

\* a check that lets attempts = 0 through
attemptsInvalid_negativeOnly(n) == n < 0

\* if (attempts < 1)
attemptsInvalid(n) == n < 1

\* while (attempt < attempts)
loopCondition(att, n) == att < n

\* a counter that is never advanced
nextAttempt_stuck(att) == att

\* a counter that advances by two per failure
nextAttempt_skips(att) == att + 2

\* attempt += 1
nextAttempt(att) == att + 1

\* a predicate that is consulted after every failure
attemptsRemain_always(att, n) == TRUE

\* the left operand of &&: retryable is consulted only when it holds
attemptsRemain(att, n) == att < n

\* a retry decision that retries what retryable refused
shouldRetry_inverted(att, n, answer) == att < n /\ ~answer

\* a retry decision that ignores what retryable answered
shouldRetry_ignoresAnswer(att, n, answer) == att < n

\* const shouldRetry = attempt < attempts && retryable(error, attempt)
shouldRetry(att, n, answer) == attemptsRemain(att, n) /\ answer

\* a catch block that rethrows the operation's error when aborted
abortThrow_prefersError(rsn, error) == error

\* throw (signal.reason as unknown) ?? error
abortThrow(rsn, error) == IF rsn \in {NULL, Undefined} THEN error ELSE rsn

\* a wrapper error that hides the error it was made from
wrappedError(error) == "RetryError"

\* throw error (when !shouldRetry)
giveUpThrow(error) == error

\* ------------------------------------------------------------------------
\* wait(ms, signal)
\* ------------------------------------------------------------------------

\* resolve() of the promise: the first settlement wins, later calls are no-ops
resolveWait(wq) ==
  [wq EXCEPT !.resolveCalls = @ + 1,
             !.outcome = IF @ = "pending" THEN "resolved" ELSE @]

\* reject(r) of the promise
rejectWait(wq, rsn) ==
  [wq EXCEPT !.rejectCalls = @ + 1,
             !.outcome = IF @ = "pending" THEN "rejected" ELSE @,
             !.reason = IF wq.outcome = "pending" THEN rsn ELSE @]

\* a wait that never attaches its abort listener
wait_noListener(ms, isAborted, rsn) ==
  IF isAborted
    THEN [NoWait EXCEPT !.outcome = "rejected", !.reason = rsn,
                        !.rejectCalls = 1, !.first = "abort", !.ms = ms,
                        !.calledAborted = TRUE]
    ELSE [NoWait EXCEPT !.outcome = "pending", !.timer = TRUE, !.timers = 1,
                        !.ms = ms]

\* the executor of the promise: wait(ms, signal) called with the signal in
\* state isAborted / rsn
wait(ms, isAborted, rsn) ==
  IF isAborted
    THEN [NoWait EXCEPT !.outcome = "rejected", !.reason = rsn,
                        !.rejectCalls = 1, !.first = "abort", !.ms = ms,
                        !.calledAborted = TRUE]
    ELSE [NoWait EXCEPT !.outcome = "pending", !.timer = TRUE, !.timers = 1,
                        !.listener = hasSignal, !.ms = ms]

\* a timer callback that never resolves the promise
timerCallback_noResolve(wq) == [wq EXCEPT !.timer = FALSE, !.listener = FALSE]

\* a timer callback that leaves the abort listener attached
timerCallback_keepsListener(wq) == resolveWait([wq EXCEPT !.timer = FALSE])

\* the setTimeout callback: detach the listener, resolve
timerCallback(wq) ==
  resolveWait([wq EXCEPT !.timer = FALSE, !.listener = FALSE])

\* an abort handler that leaves the timer running
handleAbort_keepsTimer(wq, rsn) == rejectWait([wq EXCEPT !.listener = FALSE], rsn)

\* handleAbort: clearTimeout, detach the listener, reject(signal.reason)
handleAbort(wq, rsn) ==
  rejectWait([wq EXCEPT !.timer = FALSE, !.listener = FALSE], rsn)

\* a wait that is not awaited: the continuation runs at once
waitSettled_notAwaited(wq) == TRUE

\* await wait(...): the continuation runs once the promise has settled
waitSettled(wq) == wq.outcome \in {"resolved", "rejected"}

\* ------------------------------------------------------------------------
\* Steps of retry(target, retryOptions)
\* ------------------------------------------------------------------------

\* the head of the while loop: the next resolveTarget call, or the final
\* throw lastError when the condition fails
LoopHead ==
  IF loopCondition(attempt', attempts)
    THEN /\ pc' = "awaitTarget"
         /\ invocations' = invocations + 1
         /\ inflight' = inflight + 1
         /\ result' = result
    ELSE /\ pc' = "rejected"
         /\ result' = lastError'
         /\ UNCHANGED <<invocations, inflight>>

\* retry is called: the attempts check, then the first pass of the loop
Call ==
  /\ pc = "start"
  /\ IF attemptsInvalid(attempts)
       THEN /\ pc' = "rejected"
            /\ result' = ConfigError
            /\ UNCHANGED <<attempt, lastError, invocations, inflight>>
       ELSE /\ attempt' = 0
            /\ lastError' = Undefined
            /\ LoopHead
  /\ UNCHANGED <<others, config, aborted, reason, outcomes, w, retryLog, waitLog>>

\* a success that is recorded but not returned: the loop goes round
TargetResolves_noReturn(v) ==
  /\ pc = "awaitTarget"
  /\ inflight > 0
  /\ Len(outcomes) < MaxAttempts
  /\ target = "literal" => v = LiteralValue
  /\ outcomes' = Append(outcomes, [ok |-> TRUE, val |-> v, aborted |-> aborted])
  /\ invocations' = invocations + 1
  /\ UNCHANGED <<others, config, aborted, reason, pc, attempt, lastError, result,
                 inflight, w, retryLog, waitLog>>

\* a success that is discarded when the signal is aborted
TargetResolves_checksAbort(v) ==
  /\ pc = "awaitTarget"
  /\ inflight > 0
  /\ target = "literal" => v = LiteralValue
  /\ pc' = IF hasSignal /\ aborted THEN "rejected" ELSE "resolved"
  /\ result' = IF hasSignal /\ aborted THEN reason ELSE v
  /\ inflight' = inflight - 1
  /\ outcomes' = Append(outcomes, [ok |-> TRUE, val |-> v, aborted |-> aborted])
  /\ UNCHANGED <<others, config, aborted, reason, attempt, lastError,
                 invocations, w, retryLog, waitLog>>

\* the awaited target resolves: return await resolveTarget(...)
TargetResolves(v) ==
  /\ pc = "awaitTarget"
  /\ inflight > 0
  /\ target = "literal" => v = LiteralValue
  /\ pc' = "resolved"
  /\ result' = v
  /\ inflight' = inflight - 1
  /\ outcomes' = Append(outcomes, [ok |-> TRUE, val |-> v, aborted |-> aborted])
  /\ UNCHANGED <<others, config, aborted, reason, attempt, lastError, invocations, w,
                 retryLog, waitLog>>

\* the awaited target rejects with error: the whole catch block up to the
\* call of wait. answer is what a custom retryable returns, cb the reason a
\* custom retryable aborts the signal with while it runs ("none": it does
\* not), r the value of Math.random() in thousandths
TargetRejects(error, answer, cb, r) ==
  /\ pc = "awaitTarget"
  /\ inflight > 0
  /\ target # "literal"
  /\ inflight' = inflight - 1
  /\ outcomes' = Append(outcomes, [ok |-> FALSE, val |-> error, aborted |-> aborted])
  /\ UNCHANGED <<others, config, invocations>>
  /\ IF hasSignal /\ aborted
       THEN /\ answer = TRUE /\ cb = "none" /\ r = 0
            /\ pc' = "rejected"
            /\ result' = abortThrow(reason, error)
            /\ UNCHANGED <<aborted, reason, attempt, lastError, w, retryLog,
                           waitLog>>
       ELSE LET att == nextAttempt(attempt)
                consulted == attemptsRemain(att, attempts)
                retry == shouldRetry(att, attempts, answer)
            IN  /\ lastError' = error
                /\ attempt' = att
                /\ IF consulted
                     THEN /\ retryable = "default" => (answer = TRUE /\ cb = "none")
                          /\ cb # "none" => hasSignal
                          /\ retryLog' = Append(retryLog,
                               [error |-> error, attempt |-> att, answer |-> answer])
                     ELSE /\ answer = TRUE /\ cb = "none"
                          /\ retryLog' = retryLog
                /\ aborted' = (cb # "none")
                /\ reason' = IF cb # "none" THEN cb ELSE reason
                /\ IF retry
                     THEN /\ delay.kind # "default" => r = 0
                          /\ pc' = "awaitWait"
                          /\ result' = result
                          /\ w' = wait(delayMs(att, r), hasSignal /\ aborted', reason')
                          /\ waitLog' = Append(waitLog,
                               [attempt |-> att, ms |-> delayMs(att, r)])
                     ELSE /\ r = 0
                          /\ pc' = "rejected"
                          /\ result' = giveUpThrow(error)
                          /\ UNCHANGED <<w, waitLog>>

\* the timer of wait fires
TimerFires ==
  /\ w.timer
  /\ w' = [timerCallback(w) EXCEPT !.first = IF w.first = "none" THEN "timer" ELSE @]
  /\ UNCHANGED <<others, config, aborted, reason, pc, attempt, lastError, result,
                 invocations, inflight, outcomes, retryLog, waitLog>>

\* the caller aborts the signal: controller.abort(rsn); the abort event is
\* dispatched to the listener of wait when one is attached
Abort(rsn) ==
  /\ hasSignal
  /\ ~aborted
  /\ aborted' = TRUE
  /\ reason' = rsn
  /\ LET wq == IF w.listener THEN handleAbort(w, rsn) ELSE w
     IN  w' = [wq EXCEPT !.first =
                 IF w.first = "none" /\ w.outcome # "none" THEN "abort" ELSE @]
  /\ UNCHANGED <<others, config, pc, attempt, lastError, result, invocations,
                 inflight, outcomes, retryLog, waitLog>>

\* the continuation of await wait(delayMs, signal): a rejection propagates
\* out of retry, otherwise the loop goes round
AfterWait ==
  /\ pc = "awaitWait"
  /\ waitSettled(w)
  /\ IF w.outcome = "rejected"
       THEN /\ pc' = "rejected"
            /\ result' = w.reason
            /\ UNCHANGED <<attempt, lastError, invocations, inflight>>
       ELSE /\ UNCHANGED <<attempt, lastError>>
            /\ LoopHead
  /\ UNCHANGED <<others, config, aborted, reason, outcomes, w, retryLog, waitLog>>

Next ==
  \/ Call
  \/ \E v \in Values : TargetResolves(v)
  \/ \E error \in Errors, answer \in BOOLEAN, cb \in {"none"} \cup Reasons,
        r \in RandomSamples \cup {0} :
       TargetRejects(error, answer, cb, r)
  \/ TimerFires
  \/ \E rsn \in Reasons : Abort(rsn)
  \/ AfterWait

Spec == Init /\ [][Next]_vars

\* the continuation of a settled promise is scheduled as a microtask and
\* always runs
FairSpec == Spec /\ WF_vars(AfterWait)

\* an invocation of the target that is in flight settles
TargetSettles ==
  \/ \E v \in Values : TargetResolves(v)
  \/ \E error \in Errors, answer \in BOOLEAN, cb \in {"none"} \cup Reasons,
        r \in RandomSamples \cup {0} :
       TargetRejects(error, answer, cb, r)

\* a retry call that is made, whose target invocations all settle and whose
\* timers all fire unless they are cleared, and whose continuations run
LiveSpec ==
  /\ Spec
  /\ WF_vars(Call)
  /\ WF_vars(TargetSettles)
  /\ WF_vars(TimerFires)
  /\ WF_vars(AfterWait)

\* ------------------------------------------------------------------------
\* tryCatch(input, requestOptions)
\* ------------------------------------------------------------------------

\* what an input can resolve to and what it can throw or reject with: any
\* JavaScript value, null and undefined included
TcResolved == Values \cup {NULL, Undefined}
TcThrown == Errors \cup {NULL, Undefined}

\* the inputs of tryCatch: a plain value, a promise, a thunk (which returns a
\* value, throws, or returns a promise that resolves or rejects), a URL
\* string or URL object (mode and val are then the outcome of fetcher)
TcInputs ==
  [kind : {"literal"}, mode : {"value"}, val : TcResolved]
    \cup [kind : {"promise", "string", "URL"}, mode : {"resolves"}, val : TcResolved]
    \cup [kind : {"promise", "string", "URL"}, mode : {"rejects"}, val : TcThrown]
    \cup [kind : {"thunk"}, mode : {"returns", "resolves"}, val : TcResolved]
    \cup [kind : {"thunk"}, mode : {"throws", "rejects"}, val : TcThrown]

\* input instanceof URL ? input.toString() : input
urlOf(input) == "https://example.com/"

\* resolveInput(input, requestOptions): it throws (a thunk that throws), or
\* returns the awaitable that tryCatch awaits; fetched lists its calls of
\* fetcher
resolveInput(input, options) ==
  CASE input.kind = "thunk" ->
         [threw |-> input.mode = "throws", val |-> input.val,
          awaitable |-> [ok |-> input.mode \in {"returns", "resolves"},
                         val |-> input.val],
          fetched |-> <<>>]
    [] input.kind \in {"string", "URL"} ->
         [threw |-> FALSE, val |-> Undefined,
          awaitable |-> [ok |-> input.mode = "resolves", val |-> input.val],
          fetched |-> <<[url |-> urlOf(input), options |-> options]>>]
    [] OTHER ->
         [threw |-> FALSE, val |-> Undefined,
          awaitable |-> [ok |-> input.mode \in {"value", "resolves"},
                         val |-> input.val],
          fetched |-> <<>>]

\* return [data, null] as const
onSuccess(data) == [tuple |-> <<data, NULL>>, rejected |-> FALSE]

\* a catch block that rethrows
onCatch_rethrows(error) == [tuple |-> <<>>, rejected |-> TRUE]

\* a catch block that fills the value side
onCatch_swapped(error) == [tuple |-> <<error, NULL>>, rejected |-> FALSE]

\* catch (error) { return [null, error as E] as const }
onCatch(error) == [tuple |-> <<NULL, error>>, rejected |-> FALSE]

\* tryCatch is called: resolveInput runs inside the try block, then the
\* function suspends at the await
TryCatchCall ==
  /\ tc.pc = "start"
  /\ LET r == resolveInput(tc.input, tc.options)
     IN  IF r.threw
           THEN tc' = [tc EXCEPT !.pc = "returned",
                                 !.tuple = onCatch(r.val).tuple,
                                 !.rejected = onCatch(r.val).rejected]
           ELSE tc' = [tc EXCEPT !.pc = "awaiting",
                                 !.awaited = r.awaitable,
                                 !.fetched = r.fetched]
  /\ UNCHANGED <<retryVars, fx>>

\* the awaited value settles: the rest of the try block, or the catch block
TryCatchResumes ==
  /\ tc.pc = "awaiting"
  /\ LET out == IF tc.awaited.ok THEN onSuccess(tc.awaited.val)
                                ELSE onCatch(tc.awaited.val)
     IN  tc' = [tc EXCEPT !.pc = "returned",
                          !.tuple = out.tuple,
                          !.rejected = out.rejected]
  /\ UNCHANGED <<retryVars, fx>>

\* a retry call with the default options that is never started
RetryDormant ==
  /\ attempts = MaxAttempts
  /\ delay = [kind |-> "default", ms |-> 0]
  /\ hasSignal = FALSE
  /\ retryable = "default"
  /\ target = "thunk"
  /\ RetryStart

TcInit ==
  /\ RetryDormant
  /\ \E i \in TcInputs, o \in BOOLEAN :
       tc = [TcIdle EXCEPT !.input = i, !.options = o, !.pc = "start"]
  /\ fx = FxIdle

TcNext == TryCatchCall \/ TryCatchResumes

SpecTryCatch == TcInit /\ [][TcNext]_vars

\* ------------------------------------------------------------------------
\* fetcher(url, options)
\* ------------------------------------------------------------------------

\* values of options.method that are explored (undefined: not given)
FxMethods == {Undefined, "POST", "HEAD"}

\* values of options.body: not given, null, a FormData, a plain object, an
\* object without prototype, an array, a string, a Blob
FxBodies ==
  {"undefined", "null", "FormData", "plainObject", "nullProtoObject", "array",
   "text", "Blob"}

\* values of options.headers: a set of <<name, value>> pairs
FxHeaders ==
  {{}, {<<"Content-Type", "text/plain">>}, {<<"content-type", "text/plain">>},
   {<<"X-Id", "1">>}}

FxOptions == [method : FxMethods, body : FxBodies, headers : FxHeaders]

\* response.status values that are explored
FxStatuses == {200, 204, 205, 304, 404, 500}

\* bodies a response can carry
FxTexts ==
  {"", "  ", "not json", "{\"hello\":\"world\"}", "{\"message\":\"Boom\"}",
   "{\"message\":\" Boom \"}", "{\"message\":\"  \"}", "{\"message\":42}",
   "\"Oops\"", "\" Oops \"", "\"  \""}

\* the responses fetch can resolve with; a header that is not set reads null
FxResponses ==
  [status : FxStatuses, contentLength : {NULL, "0", "12"},
   contentType : {NULL, "Application/JSON", "text/plain"}, text : FxTexts]

\* typeof value
typeOf(value) ==
  CASE value = "undefined" -> "undefined"
    [] value = "text" -> "string"
    [] OTHER -> "object"

\* Object.getPrototypeOf(value) of an object
protoOf(value) ==
  CASE value = "plainObject" -> "Object.prototype"
    [] value = "nullProtoObject" -> "null"
    [] value = "array" -> "Array.prototype"
    [] value = "FormData" -> "FormData.prototype"
    [] OTHER -> "Blob.prototype"

isPlainObject(value) ==
  IF typeOf(value) # "object" \/ value = "null"
    THEN FALSE
    ELSE protoOf(value) \in {"Object.prototype", "null"}

shouldSerializeToJson(value) == isPlainObject(value) \/ value = "array"

\* JSON.stringify of the structured bodies
JSONstringify(value) ==
  CASE value = "plainObject" -> "{\"hello\":\"world\"}"
    [] value = "nullProtoObject" -> "{\"a\":1}"
    [] value = "array" -> "[1,2]"

\* String.prototype.toLowerCase on the header names and values in use
toLowerCase(str) ==
  CASE str = "Content-Type" -> "content-type"
    [] str = "X-Id" -> "x-id"
    [] str = "Application/JSON" -> "application/json"
    [] OTHER -> str

\* String.prototype.trim on the strings in use
trim(str) ==
  CASE str = "  " -> ""
    [] str = " Boom " -> "Boom"
    [] str = " Oops " -> "Oops"
    [] OTHER -> str

\* new Headers(init): names are case-insensitive, kept in lower case
Headers(init) ==
  [n \in {toLowerCase(p[1]) : p \in init} |->
     (CHOOSE p \in init : toLowerCase(p[1]) = n)[2]]

headersHas(hs, name) == toLowerCase(name) \in DOMAIN hs

headersDelete(hs, name) == [n \in DOMAIN hs \ {toLowerCase(name)} |-> hs[n]]

headersSet(hs, name, value) ==
  [n \in DOMAIN hs \cup {toLowerCase(name)} |->
     IF n = toLowerCase(name) THEN value ELSE hs[n]]

\* JSON headers that overwrite what the caller supplied
jsonHeaders_overwrites(hs) == headersSet(hs, "Content-Type", "application/json")

\* if (!requestHeaders.has("Content-Type")) requestHeaders.set(...)
jsonHeaders(hs) ==
  IF ~headersHas(hs, "Content-Type")
    THEN headersSet(hs, "Content-Type", "application/json")
    ELSE hs

\* the requestInit handed to fetch: method, headers and body
buildRequest(options) ==
  LET method == IF options.method = Undefined THEN "GET" ELSE options.method
      body == options.body
      requestHeaders == Headers(options.headers)
  IN  IF body # "undefined" /\ body # "null"
        THEN IF body = "FormData"
               THEN [method |-> method,
                     headers |-> headersDelete(requestHeaders, "Content-Type"),
                     body |-> [kind |-> "raw", val |-> body]]
               ELSE IF shouldSerializeToJson(body)
                      THEN [method |-> method,
                            headers |-> jsonHeaders(requestHeaders),
                            body |-> [kind |-> "text", val |-> JSONstringify(body)]]
                      ELSE [method |-> method,
                            headers |-> requestHeaders,
                            body |-> [kind |-> "raw", val |-> body]]
        ELSE [method |-> method, headers |-> requestHeaders,
              body |-> [kind |-> "none", val |-> Undefined]]

\* response.ok: the status is in the range 200-299
responseOk(status) == status >= 200 /\ status <= 299

\* JSON.parse / response.json() on the bodies in use
jsonParse(text) ==
  CASE text = "{\"hello\":\"world\"}" ->
         [ok |-> TRUE, type |-> "object", hasMessage |-> FALSE,
          messageIsString |-> FALSE, str |-> "", json |-> text]
    [] text = "{\"message\":\"Boom\"}" ->
         [ok |-> TRUE, type |-> "object", hasMessage |-> TRUE,
          messageIsString |-> TRUE, str |-> "Boom", json |-> text]
    [] text = "{\"message\":\" Boom \"}" ->
         [ok |-> TRUE, type |-> "object", hasMessage |-> TRUE,
          messageIsString |-> TRUE, str |-> " Boom ", json |-> text]
    [] text = "{\"message\":\"  \"}" ->
         [ok |-> TRUE, type |-> "object", hasMessage |-> TRUE,
          messageIsString |-> TRUE, str |-> "  ", json |-> text]
    [] text = "{\"message\":42}" ->
         [ok |-> TRUE, type |-> "object", hasMessage |-> TRUE,
          messageIsString |-> FALSE, str |-> "", json |-> text]
    [] text = "\"Oops\"" ->
         [ok |-> TRUE, type |-> "string", hasMessage |-> FALSE,
          messageIsString |-> FALSE, str |-> "Oops", json |-> text]
    [] text = "\" Oops \"" ->
         [ok |-> TRUE, type |-> "string", hasMessage |-> FALSE,
          messageIsString |-> FALSE, str |-> " Oops ", json |-> text]
    [] text = "\"  \"" ->
         [ok |-> TRUE, type |-> "string", hasMessage |-> FALSE,
          messageIsString |-> FALSE, str |-> "  ", json |-> text]
    [] OTHER ->
         [ok |-> FALSE, type |-> "SyntaxError", hasMessage |-> FALSE,
          messageIsString |-> FALSE, str |-> "", json |-> text]

\* an extraction that returns the message field as it is
extractErrorMessage_untrimmed(value) ==
  IF value.type = "string" /\ trim(value.str) # ""
    THEN value.str
    ELSE IF value.type = "object" /\ value.hasMessage /\ value.messageIsString
           THEN value.str
           ELSE NULL

\* extractErrorMessage(value): a message, or null
extractErrorMessage(value) ==
  IF value.type = "string" /\ trim(value.str) # ""
    THEN value.str
    ELSE IF value.type = "object" /\ value.hasMessage /\ value.messageIsString
           THEN IF trim(value.str) # "" THEN trim(value.str) ELSE NULL
           ELSE NULL

\* `HTTP error! Status: ${response.status}`
genericMessage(status) == "HTTP error! Status: " \o ToString(status)

\* (await response.json().then(extractErrorMessage).catch(() => null))
\*   || `HTTP error! Status: ${response.status}`
errorMessage(response) ==
  LET data == jsonParse(response.text)
      message == IF data.ok THEN extractErrorMessage(data) ELSE NULL
  IN  IF message = NULL \/ message = ""
        THEN genericMessage(response.status)
        ELSE message

\* const responseHasNoContent = ...
responseHasNoContent(method, response) ==
  \/ method = "HEAD"
  \/ response.status = 204
  \/ response.status = 205
  \/ response.status = 304
  \/ (response.contentLength # NULL /\ trim(response.contentLength) = "0")

\* contentType && contentType.includes("json")
isJsonContentType(contentType) ==
  contentType # NULL /\ toLowerCase(contentType) \in {"application/json"}

\* what fetcher does with the response of fetch: the value it resolves with
\* or the error it rejects with
classify(method, response) ==
  IF ~responseOk(response.status)
    THEN [kind |-> "rejected", type |-> "Error", val |-> errorMessage(response)]
    ELSE IF responseHasNoContent(method, response)
      THEN [kind |-> "resolved", type |-> "undefined", val |-> Undefined]
      ELSE IF isJsonContentType(response.contentType)
        THEN IF trim(response.text) = ""
               THEN [kind |-> "resolved", type |-> "undefined", val |-> Undefined]
               ELSE IF jsonParse(response.text).ok
                      THEN [kind |-> "resolved", type |-> "json",
                            val |-> response.text]
                      ELSE [kind |-> "rejected", type |-> "SyntaxError",
                            val |-> response.text]
        ELSE [kind |-> "resolved", type |-> "text", val |-> response.text]

\* fetcher is called: the request is built and handed to fetch
FetcherCall ==
  /\ fx.pc = "start"
  /\ fx' = [fx EXCEPT !.pc = "fetching", !.request = buildRequest(fx.options)]
  /\ UNCHANGED <<retryVars, tc>>

\* fetch resolves with a response
FetchResolves(response) ==
  /\ fx.pc = "fetching"
  /\ fx' = [fx EXCEPT !.pc = "classifying", !.response = response]
  /\ UNCHANGED <<retryVars, tc>>

\* fetch rejects (network failure): the error is rethrown
FetchRejects ==
  /\ fx.pc = "fetching"
  /\ fx' = [fx EXCEPT !.pc = "done",
                      !.result = [kind |-> "rejected", type |-> "TypeError",
                                  val |-> "fetch failed"]]
  /\ UNCHANGED <<retryVars, tc>>

\* the response is classified and its body read
FetcherClassifies ==
  /\ fx.pc = "classifying"
  /\ fx' = [fx EXCEPT !.pc = "done",
                      !.result = classify(fx.request.method, fx.response)]
  /\ UNCHANGED <<retryVars, tc>>

FxInit ==
  /\ RetryDormant
  /\ tc = TcIdle
  /\ \E o \in FxOptions : fx = [FxIdle EXCEPT !.options = o, !.pc = "start"]

FxNext ==
  \/ FetcherCall
  \/ \E response \in FxResponses : FetchResolves(response)
  \/ FetchRejects
  \/ FetcherClassifies

SpecFetcher == FxInit /\ [][FxNext]_vars

\* ------------------------------------------------------------------------
\* Properties
\* ------------------------------------------------------------------------

TypeOK ==
  /\ attempts \in MinAttempts..MaxAttempts
  /\ delay \in DelayOptions
  /\ hasSignal \in BOOLEAN /\ aborted \in BOOLEAN
  /\ pc \in {"start", "awaitTarget", "awaitWait", "resolved", "rejected"}
  /\ attempt \in 0..MaxAttempts
  /\ invocations \in 0..MaxAttempts
  /\ inflight \in 0..1
  /\ Len(outcomes) <= MaxAttempts

settled == pc \in {"resolved", "rejected"}

allFailed == \A i \in DOMAIN outcomes : ~outcomes[i].ok

\* C1: with attempts = N >= 1, the default retryable, a signal that is never
\* aborted and a target whose every invocation fails, retry rejects after
\* exactly N invocations, with the error of the N-th invocation; before that
\* it has not settled.
C1_ExhaustsAttempts ==
  (attempts >= 1 /\ retryable = "default" /\ ~aborted /\ allFailed /\ pc # "start")
    => /\ invocations <= attempts
       /\ settled <=> (Len(outcomes) = attempts)
       /\ settled => /\ pc = "rejected"
                      /\ invocations = attempts
                      /\ result = outcomes[attempts].val

C1_Witness ==
  /\ attempts >= 3 /\ retryable = "default" /\ ~aborted /\ allFailed
  /\ pc = "rejected" /\ invocations = attempts
  /\ outcomes[1].val # outcomes[attempts].val
  /\ result = outcomes[attempts].val

\* C2: once an invocation of the target has succeeded, it is the last
\* invocation: retry is resolved with its value, the target has been invoked
\* exactly as many times as the position j of that success, and nothing is in
\* flight. Every earlier invocation failed and was retried (waited for).
C2_SuccessEndsRetry ==
  \A j \in DOMAIN outcomes :
    outcomes[j].ok
      => /\ j = Len(outcomes)
         /\ pc = "resolved"
         /\ result = outcomes[j].val
         /\ invocations = j
         /\ inflight = 0
         /\ Len(waitLog) = j - 1

C2_Witness ==
  /\ pc = "resolved" /\ Len(outcomes) >= 2 /\ invocations = Len(outcomes)
  /\ ~outcomes[1].ok /\ Last(outcomes).ok /\ result = Last(outcomes).val

\* retryable has just answered false and retry has given up
refused == retryLog # <<>> /\ ~Last(retryLog).answer

\* C3 (as stated): when retryable(error, k) returns false with k < attempts,
\* retry stops after exactly k + 1 invocations and fails with that error.
C3_Original ==
  refused => /\ pc = "rejected"
             /\ invocations = Last(retryLog).attempt + 1
             /\ result = Last(retryLog).error

\* C3 (amended): when retryable(error, k) returns false (k is the number of
\* invocations made so far, 1 <= k < attempts), retry stops after exactly k
\* invocations and fails with the error retryable was given, which is the
\* error of the k-th invocation.
C3_RefusalStopsAtK ==
  refused => LET k == Last(retryLog).attempt
             IN  /\ k \in 1..(attempts - 1)
                 /\ pc = "rejected"
                 /\ invocations = k
                 /\ Len(outcomes) = k
                 /\ result = Last(retryLog).error
                 /\ result = outcomes[k].val

C3_Witness ==
  /\ refused /\ Last(retryLog).attempt = 2 /\ attempts >= 3
  /\ pc = "rejected" /\ invocations = 2
  /\ result = outcomes[2].val /\ outcomes[1].val # outcomes[2].val

\* the latest wait was rejected by an abort that came while it was pending
waitCancelled == w.outcome = "rejected" /\ ~w.calledAborted

\* C4: when the signal is aborted while the timer of the delay is pending,
\* the wait is rejected with the signal's reason in that very step, the
\* target is not invoked again, and retry eventually rejects with the
\* signal's reason.
C4_AbortDuringDelay ==
  /\ [][(w.timer /\ ~aborted /\ aborted')
          => (w'.outcome = "rejected" /\ w'.reason = reason' /\ ~w'.timer)]_vars
  /\ [](waitCancelled
          => /\ pc \in {"awaitWait", "rejected"}
             /\ inflight = 0
             /\ w.reason = reason
             /\ pc = "rejected" => result = reason)
  /\ [][waitCancelled => invocations' = invocations]_vars
  /\ (waitCancelled ~> (pc = "rejected" /\ result = reason))

C4_Witness ==
  /\ waitCancelled /\ pc = "rejected" /\ result = reason /\ reason = "cancelled"
  /\ invocations = 1 /\ attempts >= 3 /\ Len(waitLog) = 1

\* a step in which an invocation of the target fails
failStep == Len(outcomes') = Len(outcomes) + 1 /\ ~Last(outcomes').ok

\* C5 (as stated): a failure of the target that finds the signal aborted makes
\* retry fail at once with the signal's reason, without consulting retryable,
\* without waiting and without a further invocation.
C5_Original ==
  [][(failStep /\ aborted)
      => /\ pc' = "rejected"
         /\ result' = reason
         /\ retryLog' = retryLog /\ waitLog' = waitLog /\ w' = w
         /\ invocations' = invocations]_vars

\* C5 (amended): a failure of the target that finds the signal aborted makes
\* retry fail at once, with the signal's reason when that reason is not null
\* and with the operation's error when it is null; retryable is not
\* consulted, no wait is started and no further invocation is made.
C5_AbortedFailureStops ==
  [][(failStep /\ aborted)
      => /\ pc' = "rejected"
         /\ reason # NULL => result' = reason
         /\ reason = NULL => result' = Last(outcomes').val
         /\ retryLog' = retryLog /\ waitLog' = waitLog /\ w' = w
         /\ attempt' = attempt
         /\ invocations' = invocations /\ inflight' = 0]_vars

C5_Witness ==
  /\ pc = "rejected" /\ aborted /\ allFailed /\ Len(outcomes) = 2
  /\ result = reason /\ reason = "AbortError"
  /\ Len(retryLog) = 1 /\ Len(waitLog) = 1 /\ w.outcome = "resolved"

\* C6: with attempts < 1, the call rejects with the configuration error in
\* its first step; the target is never invoked, retryable is never consulted
\* and no wait is started.
C6_InvalidAttempts ==
  attempts < 1
    => /\ pc \in {"start", "rejected"}
       /\ pc = "rejected" => result = ConfigError
       /\ invocations = 0 /\ inflight = 0 /\ outcomes = <<>>
       /\ retryLog = <<>> /\ waitLog = <<>> /\ w = NoWait

C6_Witness ==
  attempts = 0 /\ pc = "rejected" /\ result = ConfigError /\ invocations = 0

\* C7: at most one invocation of the target is in flight, never together
\* with a pending delay timer; and an invocation after the first starts only
\* when nothing is in flight, the previous invocation has failed and the
\* delay started for that failure has elapsed (its promise is resolved and
\* its timer is no longer pending).
C7_StrictlySequential ==
  /\ [](inflight <= 1 /\ ~(inflight > 0 /\ w.timer))
  /\ [][(invocations' > invocations /\ invocations >= 1)
          => /\ invocations' = invocations + 1
             /\ inflight = 0
             /\ Len(outcomes) = invocations /\ ~Last(outcomes).ok
             /\ Len(waitLog) = invocations
             /\ Last(waitLog).attempt = invocations
             /\ w.outcome = "resolved" /\ ~w.timer /\ w.resolveCalls = 1]_vars

C7_Witness ==
  /\ invocations = 3 /\ inflight = 1 /\ Len(outcomes) = 2 /\ Len(waitLog) = 2
  /\ ~w.timer /\ w.outcome = "resolved"

\* C8: a retry call with attempts >= 1 that has rejected has rejected with a
\* defined value that is the reason of the aborted signal or the error of
\* the most recent invocation of the target.
C8_TerminalErrorIsOriginal ==
  (pc = "rejected" /\ attempts >= 1)
    => /\ result # Undefined
       /\ \/ aborted /\ result = reason
          \/ outcomes # <<>> /\ ~Last(outcomes).ok /\ result = Last(outcomes).val

C8_Witness ==
  /\ pc = "rejected" /\ attempts >= 3 /\ ~aborted /\ Len(outcomes) = 3
  /\ result = outcomes[3].val /\ outcomes[1].val # result /\ outcomes[2].val # result

\* C9: a call of wait settles at most once, and as soon as the timer has
\* fired or the signal has been aborted it has settled exactly once, by the
\* event that came first: resolved when the timer fired first, rejected with
\* the signal's reason when the abort came first.
C9_WaitSingleOutcome ==
  /\ w.resolveCalls + w.rejectCalls <= 1
  /\ w.first = "none"
       => w.outcome \in {"none", "pending"} /\ w.resolveCalls + w.rejectCalls = 0
  /\ w.first = "timer"
       => w.outcome = "resolved" /\ w.resolveCalls = 1 /\ w.rejectCalls = 0
  /\ w.first = "abort"
       => /\ w.outcome = "rejected" /\ w.rejectCalls = 1 /\ w.resolveCalls = 0
          /\ w.reason = reason
  /\ (w.outcome # "none" /\ aborted) => w.first # "none"

C9_Witness ==
  /\ w.first = "timer" /\ aborted /\ pc = "awaitWait"
  /\ w.outcome = "resolved" /\ w.resolveCalls = 1 /\ w.rejectCalls = 0

\* C10: once a call of wait has settled, its timer is not pending and its
\* abort listener is not attached; a wait called with the signal already
\* aborted is rejected without ever starting a timer or attaching a listener.
C10_WaitLeavesNothing ==
  /\ waitSettled(w) => ~w.timer /\ ~w.listener
  /\ w.calledAborted
       => /\ w.outcome = "rejected" /\ w.reason = reason
          /\ w.timers = 0 /\ ~w.timer /\ ~w.listener
  /\ (w.timer \/ w.listener) => w.outcome = "pending"

C10_Witness ==
  /\ w.calledAborted /\ w.outcome = "rejected" /\ w.timers = 0
  /\ Len(waitLog) = 2

\* the waits that the default backoff computed for attempt index 1
defaultWaitsAt1 ==
  {i \in DOMAIN waitLog : delay.kind = "default" /\ waitLog[i].attempt = 1}

\* C11 (as stated): the default backoff delay for attempt index 1 lies in
\* [400, 460] ms for every jitter factor in [0.85, 1.15).
C11_Original ==
  \A i \in defaultWaitsAt1 : waitLog[i].ms >= 400 /\ waitLog[i].ms <= 460

\* C11 (amended): the default backoff delay for attempt index 1 lies in
\* [200*2*0.85, 200*2*1.15] = [340, 460] ms for every jitter factor in
\* [0.85, 1.15).
C11_DefaultDelayRange ==
  \A i \in defaultWaitsAt1 : waitLog[i].ms >= 340 /\ waitLog[i].ms <= 460

C11_Witness ==
  /\ defaultWaitsAt1 # {}
  /\ waitLog[1].ms = 340 /\ w.ms = 340 /\ w.outcome = "resolved"

\* the input of the tryCatch call succeeds (resolves to tc.input.val) rather
\* than throws or rejects (with tc.input.val)
tcInputSucceeds == tc.input.mode \in {"value", "returns", "resolves"}

populated(x) == x # NULL /\ x # Undefined

\* C12: tryCatch never rejects, and when it has returned it has returned a
\* two-element tuple: [v, null] when the input resolved to v, [null, e] when
\* the input threw or rejected with e (a thunk that throws synchronously
\* included).
C12_TryCatchNeverRejects ==
  /\ ~tc.rejected
  /\ tc.pc = "returned"
       => /\ Len(tc.tuple) = 2
          /\ tcInputSucceeds => tc.tuple = <<tc.input.val, NULL>>
          /\ ~tcInputSucceeds => tc.tuple = <<NULL, tc.input.val>>

C12_Witness ==
  /\ tc.pc = "returned" /\ tc.input.kind = "thunk" /\ tc.input.mode = "throws"
  /\ tc.tuple = <<NULL, "E1">> /\ ~tc.rejected

\* C13 (as stated): in every tuple returned by tryCatch exactly one of the
\* two sides is populated (neither null nor undefined).
C13_Original ==
  tc.pc = "returned"
    => (populated(tc.tuple[1]) /\ ~populated(tc.tuple[2]))
         \/ (~populated(tc.tuple[1]) /\ populated(tc.tuple[2]))

\* C13 (amended): in every tuple returned by tryCatch at most one side is
\* populated, never both; exactly one side is populated whenever the value
\* the input resolved to, or threw, is itself neither null nor undefined
\* (the value side for a resolved value, the error side for a thrown one).
\* Both sides are null/undefined when that value is null or undefined.
C13_TupleSides ==
  tc.pc = "returned"
    => /\ ~(populated(tc.tuple[1]) /\ populated(tc.tuple[2]))
       /\ populated(tc.input.val)
            => /\ populated(tc.tuple[1]) <=> tcInputSucceeds
               /\ populated(tc.tuple[2]) <=> ~tcInputSucceeds
       /\ ~populated(tc.input.val)
            => ~populated(tc.tuple[1]) /\ ~populated(tc.tuple[2])

C13_Witness ==
  /\ tc.pc = "returned" /\ tc.input.kind = "promise" /\ tc.input.mode = "rejects"
  /\ populated(tc.tuple[2]) /\ ~populated(tc.tuple[1])

\* fetcher has classified a response of fetch
fxClassified == fx.pc = "done" /\ fx.response # <<>>

\* the conditions under which a response counts as carrying no content
fxNoContentCase ==
  \/ fx.request.method = "HEAD"
  \/ fx.response.status \in {204, 205, 304}
  \/ fx.response.contentLength = "0"

\* C14: a completed response (one whose status is not an error status, 4xx
\* or 5xx) makes fetcher resolve with undefined, and not reject, whenever the
\* method is HEAD, or the status is 204, 205 or 304, or the content-length
\* header is "0", whatever the body.
C14_NoContent ==
  (fxClassified /\ fx.response.status < 400 /\ fxNoContentCase)
    => fx.result.kind = "resolved" /\ fx.result.type = "undefined"

\* the caller supplied a content-type header, under any spelling of its name
fxCallerContentType ==
  \E p \in fx.options.headers : p[1] \in {"Content-Type", "content-type"}

\* the headers of the request other than content-type are the caller's
fxOtherHeadersKept ==
  /\ \A p \in fx.options.headers :
       p[1] \notin {"Content-Type", "content-type"}
         => "x-id" \in DOMAIN fx.request.headers /\ fx.request.headers["x-id"] = p[2]
  /\ DOMAIN fx.request.headers \subseteq {"content-type", "x-id"}
  /\ "x-id" \in DOMAIN fx.request.headers
       => <<"X-Id", fx.request.headers["x-id"]>> \in fx.options.headers

\* the content-type header of the request is the one the caller supplied, or
\* absent when the caller supplied none
fxContentTypeKept ==
  IF fxCallerContentType
    THEN /\ "content-type" \in DOMAIN fx.request.headers
         /\ fx.request.headers["content-type"] = "text/plain"
    ELSE "content-type" \notin DOMAIN fx.request.headers

\* C15: the request handed to fetch has no body when options.body is absent
\* or null; a FormData body unmodified and no content-type header; the JSON
\* text of a plain object or array, with content-type application/json only
\* when the caller supplied no content-type and the caller's content-type
\* otherwise; any other body unmodified with the caller's headers. The other
\* headers are always the caller's.
C15_BodyNormalization ==
  fx.pc \in {"fetching", "classifying", "done"}
    => LET body == fx.options.body
           req == fx.request
       IN  /\ fxOtherHeadersKept
           /\ req.method = IF fx.options.method = Undefined THEN "GET"
                                                         ELSE fx.options.method
           /\ body \in {"undefined", "null"}
                => req.body.kind = "none" /\ fxContentTypeKept
           /\ body = "FormData"
                => /\ req.body = [kind |-> "raw", val |-> "FormData"]
                   /\ "content-type" \notin DOMAIN req.headers
           /\ body \in {"plainObject", "nullProtoObject", "array"}
                => /\ req.body.kind = "text"
                   /\ body = "plainObject" => req.body.val = "{\"hello\":\"world\"}"
                   /\ body = "nullProtoObject" => req.body.val = "{\"a\":1}"
                   /\ body = "array" => req.body.val = "[1,2]"
                   /\ "content-type" \in DOMAIN req.headers
                   /\ req.headers["content-type"] =
                        IF fxCallerContentType THEN "text/plain"
                                               ELSE "application/json"
           /\ body \in {"text", "Blob"}
                => req.body = [kind |-> "raw", val |-> body] /\ fxContentTypeKept

C15_Witness ==
  /\ fx.pc = "fetching" /\ fx.options.body = "plainObject"
  /\ fx.options.headers = {<<"content-type", "text/plain">>}
  /\ fx.request.body.kind = "text"
  /\ fx.request.headers["content-type"] = "text/plain"

\* fetcher has classified a non-success response
fxFailed == fxClassified /\ ~(fx.response.status \in 200..299)

\* the message the error body yields, as the claim states it: the message
\* field, or the string body, as it is in the body
fxStatedMessage(text) ==
  CASE text = "{\"message\":\"Boom\"}" -> "Boom"
    [] text = "{\"message\":\" Boom \"}" -> " Boom "
    [] text = "\"Oops\"" -> "Oops"
    [] text = "\" Oops \"" -> " Oops "
    [] OTHER -> NULL

\* the message the error body yields: the message field with the whitespace
\* around it removed, or the string body as it is
fxYieldedMessage(text) ==
  CASE text = "{\"message\":\"Boom\"}" -> "Boom"
    [] text = "{\"message\":\" Boom \"}" -> "Boom"
    [] text = "\"Oops\"" -> "Oops"
    [] text = "\" Oops \"" -> " Oops "
    [] OTHER -> NULL

fxGeneric == "HTTP error! Status: " \o ToString(fx.response.status)

\* C16 (as stated): a non-success response makes fetcher reject with an Error
\* whose message is the body's message field, or the plain non-blank string
\* body, when the body decodes as JSON and yields one, and the generic
\* message with the status code otherwise.
C16_Original ==
  fxFailed
    => /\ fx.result.kind = "rejected" /\ fx.result.type = "Error"
       /\ fx.result.val = IF fxStatedMessage(fx.response.text) # NULL
                            THEN fxStatedMessage(fx.response.text)
                            ELSE fxGeneric

\* C16 (amended): a non-success response makes fetcher reject with an Error
\* whose message is the body's message field with the whitespace around it
\* trimmed, or the plain non-blank string body unchanged, when the body
\* decodes as JSON and yields one, and the generic message with the status
\* code otherwise (decode failure, missing, non-string or blank message); a
\* failure to decode the body is never the error.
C16_ErrorMessage ==
  fxFailed
    => /\ fx.result.kind = "rejected" /\ fx.result.type = "Error"
       /\ fx.result.val = IF fxYieldedMessage(fx.response.text) # NULL
                            THEN fxYieldedMessage(fx.response.text)
                            ELSE fxGeneric

C16_Witness ==
  /\ fxFailed /\ fx.response.status = 500
  /\ fx.response.text = "{\"message\":\" Boom \"}"
  /\ fx.result = [kind |-> "rejected", type |-> "Error", val |-> "Boom"]

\* a step in which retryable is consulted and answers false
refusalStep == Len(retryLog') = Len(retryLog) + 1 /\ ~Last(retryLog').answer

\* C17: when retryable answers false for the failure of the j-th invocation
\* (j < attempts, signal not aborted when the failure is caught), retry
\* rejects in that step with the error of that invocation, starts no delay,
\* and the target has been invoked exactly j times.
C17_RefusalRejectsWithOwnError ==
  [][refusalStep
      => /\ ~aborted
         /\ failStep
         /\ pc' = "rejected"
         /\ result' = Last(outcomes').val
         /\ result' \in Errors
         /\ waitLog' = waitLog /\ w' = w /\ ~w'.timer
         /\ invocations' = invocations
         /\ invocations' = Len(outcomes')
         /\ invocations' < attempts]_vars

C17_Witness ==
  /\ retryLog # <<>> /\ ~retryLog[1].answer /\ attempts = 3
  /\ pc = "rejected" /\ invocations = 1 /\ result = outcomes[1].val
  /\ waitLog = <<>>

\* C18: every call of retryable gets the error of the invocation that has
\* just failed and the number of invocations made so far, which lies in
\* 1..attempts-1: retryable is not consulted after the attempts-th failure,
\* nor at all when attempts = 1.
C18_RetryableArguments ==
  /\ Len(retryLog) <= Max(attempts - 1, 0)
  /\ Len(retryLog) <= Len(outcomes)
  /\ \A i \in DOMAIN retryLog :
       /\ retryLog[i].attempt = i
       /\ retryLog[i].attempt \in 1..(attempts - 1)
       /\ ~outcomes[i].ok
       /\ retryLog[i].error = outcomes[i].val

C18_Witness ==
  /\ attempts = 3 /\ Len(outcomes) = 3 /\ allFailed /\ pc = "rejected"
  /\ Len(retryLog) = 2 /\ retryLog[2].attempt = 2
  /\ retryLog[2].error = outcomes[2].val /\ outcomes[1].val # outcomes[2].val

\* a step in which an invocation of the target succeeds
successStep == Len(outcomes') = Len(outcomes) + 1 /\ Last(outcomes').ok

\* C19: an invocation that succeeds makes retry resolve with its value
\* whether or not the signal is aborted; a resolved call stays resolved with
\* that value when the signal is aborted later; and a call with attempts >= 1
\* makes its first invocation even when the signal is already aborted.
C19_SuccessBeatsCancellation ==
  /\ [][successStep => (pc' = "resolved" /\ result' = Last(outcomes').val)]_vars
  /\ [][pc = "resolved" => (pc' = "resolved" /\ result' = result)]_vars
  /\ [][(pc = "start" /\ pc' # "start" /\ attempts >= 1)
          => (pc' = "awaitTarget" /\ invocations' = 1)]_vars

C19_Witness ==
  /\ pc = "resolved" /\ Len(outcomes) = 2 /\ Last(outcomes).aborted
  /\ result = Last(outcomes).val /\ reason = "cancelled"

\* C20: the i-th wait is the one for the i-th failure (k = i), so there is
\* exactly one wait per retried failure; its duration is max(delay, 0) for a
\* fixed delay and delay(k) for a delay function; there is no wait before
\* the first invocation nor after the last failure.
C20_WaitDurations ==
  /\ pc = "start" => waitLog = <<>>
  /\ Len(waitLog) <= Max(attempts - 1, 0)
  /\ pc = "awaitTarget" => Len(waitLog) = invocations - 1
  /\ pc = "awaitWait" => Len(waitLog) = invocations
  /\ settled => Len(waitLog) \in {invocations - 1, invocations}
  /\ (pc = "rejected" /\ attempts >= 1 /\ Len(outcomes) = attempts)
       => Len(waitLog) = attempts - 1
  /\ \A i \in DOMAIN waitLog :
       /\ waitLog[i].attempt = i
       /\ ~outcomes[i].ok
       /\ delay.kind = "fixed"
            => /\ waitLog[i].ms = (IF delay.ms > 0 THEN delay.ms ELSE 0)
               /\ waitLog[i].ms >= 0
       /\ delay.kind = "fn" => waitLog[i].ms = 10 * i
       /\ delay.kind = "default"
            => /\ 100 * waitLog[i].ms >= 17000 * (2 ^ i) - 50
               /\ 100 * waitLog[i].ms <= 23000 * (2 ^ i) + 50
  /\ w.outcome # "none" => w.ms = Last(waitLog).ms

C20_Witness ==
  /\ delay.kind = "fixed" /\ delay.ms < 0 /\ pc = "awaitTarget"
  /\ invocations = 3 /\ Len(waitLog) = 2 /\ waitLog[2].ms = 0 /\ w.ms = 0

\* C21: in a retry call with attempts >= 1 the number of invocations of the
\* target never exceeds attempts, and is at least 1 once the call has
\* settled, whatever the successes, failures, answers of retryable and
\* aborts.
C21_InvocationBounds ==
  attempts >= 1
    => /\ invocations <= attempts
       /\ invocations = Len(outcomes) + inflight
       /\ settled => invocations >= 1

C21_Witness ==
  /\ pc = "resolved" /\ attempts = 3 /\ invocations = 3 /\ aborted
  /\ retryable = "custom" /\ Len(retryLog) = 2

\* C22: a retry call whose target invocations all settle and whose timers
\* all fire or are cleared eventually settles; every retried failure (one
\* followed by a wait) advances the attempt counter by one, the counter
\* never decreases and never exceeds attempts.
C22_EventuallySettles ==
  /\ <>settled
  /\ [][Len(waitLog') > Len(waitLog) => attempt' = attempt + 1]_vars
  /\ [][attempt' >= attempt]_vars
  /\ [](attempts >= 1 => attempt <= attempts)

C22_Witness ==
  /\ pc = "rejected" /\ attempts = 3 /\ attempt = 3 /\ Len(waitLog) = 2
  /\ w.first = "timer" /\ hasSignal /\ ~aborted

====
